---- MODULE Spec2Model ----
(***************************************************************************)
(* A model of the HDF5 reader front end (polars/io/hdf5/functions.py:      *)
(* read_hdf5, scan_hdf5, _scan_hdf5_impl) and of the placeholder           *)
(* expression helper (polars/_utils/TC_expressions.py: trans_func).        *)
(*                                                                         *)
(* One call of the public surface is one action.  Every call records the   *)
(* library and engine primitives it invokes, in order, in `log`, and its   *)
(* return value or the exception it raises in `ret`.  After a read_hdf5    *)
(* call the caller may replay the same arguments by hand (scan_hdf5, then  *)
(* select, then collect); `manual` holds that replay.                      *)
(***************************************************************************)
EXTENDS Integers, Sequences, FiniteSets, TLC

VARIABLES op, args, ret, log, manual

vars == <<op, args, ret, log, manual>>

\* ------------------------------------------------------------------ bounds

\* Longest column selector passed to read_hdf5.
MaxSel == 2

\* Longest list of paths passed as a source.
MaxPaths == 2

\* Number of pieces a template string is assembled from.
MaxPieces == 4

\* ------------------------------------------------------------ Python values

\* Python's None, where the value is otherwise a string.
None == "<None>"

\* s[i] for a Python list s and an int i: zero-based, a negative i counts
\* from the end; outside -len..len-1 it raises IndexError.
PyInRange(s, i) == -Len(s) <= i /\ i < Len(s)

PyIndex(s, i) == IF i >= 0 THEN s[i + 1] ELSE s[Len(s) + i + 1]

\* All sequences over S of length at most n.
SeqsUpTo(S, n) == UNION {[1..k -> S] : k \in 0..n}

\* ------------------------------------------------------- exceptions, values

NoTable == <<>>

NoLf == [source |-> None, sources |-> <<>>, subgroup |-> None, format |-> None,
         projected |-> FALSE, names |-> <<>>]

NoRet == [kind |-> "none", exc |-> "", at |-> "", info |-> <<>>,
          lf |-> NoLf, table |-> NoTable]

\* `raise exc(...)` at the named place; info lists the values the message names.
Raise(exc, at, info) == [NoRet EXCEPT !.kind = "raise", !.exc = exc, !.at = at,
                                      !.info = info]

ReturnLf(lf) == [NoRet EXCEPT !.kind = "lf", !.lf = lf]

ReturnTable(t) == [NoRet EXCEPT !.kind = "table", !.table = t]

\* One entry of the call log.
Entry(fn) == [fn |-> fn, source |-> None, sources |-> <<>>, subgroup |-> None,
              format |-> None, names |-> <<>>, text |-> <<>>]

\* The outcome of a step: a value or an exception, and the primitives invoked.
Out(r, l) == [ret |-> r, log |-> l]

\* ------------------------------------------------------ the external engine

\* The files the engine can see: normalized path, subgroup and format hint
\* give a schema, or <<>> when the engine cannot read that combination.
EngineSchemaOfFile(path, subgroup, format) ==
    IF format = "vaex" THEN <<>>
    ELSE IF path = "/cwd/a.h5" /\ subgroup = None THEN <<"x", "y", "z">>
    ELSE IF path = "/cwd/a.h5" /\ subgroup = "g" THEN <<"p", "q">>
    ELSE IF path = "/home/u/b.h5" /\ subgroup = None THEN <<"x", "q">>
    ELSE <<>>

\* The stored values of a column (two rows).
EngineColumnData(name) ==
    CASE name = "x" -> <<1, 2>>
      [] name = "y" -> <<3, 4>>
      [] name = "z" -> <<5, 6>>
      [] name = "p" -> <<7, 8>>
      [] OTHER      -> <<9, 0>>

\* engine.schemaOf of the scan itself (before projection): the single source,
\* or the first of a list of sources; <<>> when unreadable.
EngineScanSchema(lf) ==
    IF lf.source # None THEN EngineSchemaOfFile(lf.source, lf.subgroup, lf.format)
    ELSE IF lf.sources = <<>> THEN <<>>
    ELSE IF \E k \in 1..Len(lf.sources) :
              EngineSchemaOfFile(lf.sources[k], lf.subgroup, lf.format)
                # EngineSchemaOfFile(lf.sources[1], lf.subgroup, lf.format)
         THEN <<>>
    ELSE EngineSchemaOfFile(lf.sources[1], lf.subgroup, lf.format)

Range(s) == {s[k] : k \in 1..Len(s)}

HasDuplicates(s) == \E i, j \in 1..Len(s) : i # j /\ s[i] = s[j]

\* PyLazyFrame.new_from_hdf5 followed by wrap_ldf: an unexecuted plan.
new_from_hdf5(source, sources, subgroup, format) ==
    [NoLf EXCEPT !.source = source, !.sources = sources,
                 !.subgroup = subgroup, !.format = format]

new_from_hdf5_entry(source, sources, subgroup, format) ==
    [Entry("new_from_hdf5") EXCEPT !.source = source, !.sources = sources,
                                   !.subgroup = subgroup, !.format = format]

\* LazyFrame.columns: the plan's ordered column names, without reading rows.
lf_columns(lf) == IF lf.projected THEN lf.names ELSE EngineScanSchema(lf)

lf_readable(lf) == EngineScanSchema(lf) # <<>>

\* LazyFrame.select(names): a new plan; the receiver is not changed.
lf_select(lf, names) == [lf EXCEPT !.projected = TRUE, !.names = names]

SelectEntry(names) == [Entry("select") EXCEPT !.names = names]

\* LazyFrame.collect under the engine's policy on duplicate output names
\* (dup = "allow" or "reject").
lf_collect(lf, dup) ==
    IF ~lf_readable(lf)
    THEN Raise("EngineExecutionError", "collect", <<>>)
    ELSE IF lf.projected /\ ~(Range(lf.names) \subseteq Range(EngineScanSchema(lf)))
    THEN Raise("ColumnNotFoundError", "collect",
               <<CHOOSE n \in Range(lf.names) : n \notin Range(EngineScanSchema(lf))>>)
    ELSE IF lf.projected /\ HasDuplicates(lf.names) /\ dup = "reject"
    THEN Raise("DuplicateError", "collect", <<>>)
    ELSE ReturnTable([k \in 1..Len(lf_columns(lf)) |->
                        [name |-> lf_columns(lf)[k],
                         vals |-> EngineColumnData(lf_columns(lf)[k])]])

\* --------------------------------------------------- polars._utils.various

\* normalize_filepath: tilde expansion, relative paths made absolute.
normalize_filepath(p) ==
    CASE p = "a.h5"    -> "/cwd/a.h5"
      [] p = "~/b.h5"  -> "/home/u/b.h5"
      [] p = "gone.h5" -> "/cwd/gone.h5"
      [] OTHER         -> p

\* is_int_sequence(columns): every element is an int (so the empty list is one).
is_int_sequence(columns) == columns.kind = "ints" \/ columns.sel = <<>>

\* ------------------------------------------------- polars/io/hdf5/functions

\* _scan_hdf5_impl(source, subgroup=, format=), source a str or a list.
_scan_hdf5_impl(source, subgroup, format) ==
    LET isList  == source.kind = "list"
        sources == IF isList THEN source.paths ELSE <<>>
        single  == IF isList THEN None ELSE source.path
    IN  Out(ReturnLf(new_from_hdf5(single, sources, subgroup, format)),
            <<new_from_hdf5_entry(single, sources, subgroup, format)>>)

\* scan_hdf5 with bytes let through the isinstance test as if they were a path.
scan_hdf5_accepts_bytes(source, subgroup, format) ==
    IF source.kind \in {"str", "Path", "bytes"}
    THEN _scan_hdf5_impl([source EXCEPT !.kind = "str",
                                     !.path = normalize_filepath(source.path)],
                      subgroup, format)
    ELSE Out(Raise("AttributeError", "scan_hdf5", <<>>), <<>>)

\* scan_hdf5(source, subgroup=, format=).
scan_hdf5(source, subgroup, format) ==
    IF source.kind \in {"str", "Path"}
    THEN _scan_hdf5_impl([source EXCEPT !.kind = "str",
                                     !.path = normalize_filepath(source.path)],
                      subgroup, format)
    ELSE Out(Raise("AttributeError", "scan_hdf5", <<>>), <<>>)

\* The comprehension turned round: [c for i, c in enumerate(lf.columns) if i in
\* columns], which gives the names in schema order, each once.
resolve_columns_schema_order(schema, sel) ==
    LET Keep(k) == \E j \in 1..Len(sel) : PyInRange(schema, sel[j])
                                          /\ PyIndex(schema, sel[j]) = schema[k]
        F[k \in 0..Len(schema)] ==
            IF k = 0 THEN <<>>
            ELSE IF Keep(k) THEN Append(F[k - 1], schema[k]) ELSE F[k - 1]
    IN  F[Len(schema)]

\* [lf.columns[i] for i in columns]
ResolveColumns(schema, sel) == [k \in 1..Len(sel) |-> PyIndex(schema, sel[k])]

\* The projection step of read_hdf5 (lines 82-85) on the frame lf.
ProjectionStep(lf, columns) ==
    IF columns.kind = "None" THEN Out(ReturnLf(lf), <<>>)
    ELSE IF is_int_sequence(columns)
    THEN IF columns.sel # <<>> /\ ~lf_readable(lf)
         THEN Out(Raise("EngineExecutionError", "lf.columns", <<>>), <<>>)
         ELSE IF \E k \in 1..Len(columns.sel) : ~PyInRange(lf_columns(lf), columns.sel[k])
         THEN Out(Raise("IndexError", "lf.columns[i]", <<>>), <<>>)
         ELSE Out(ReturnLf(lf_select(lf, ResolveColumns(lf_columns(lf), columns.sel))),
                  <<SelectEntry(ResolveColumns(lf_columns(lf), columns.sel))>>)
    ELSE Out(ReturnLf(lf_select(lf, columns.sel)), <<SelectEntry(columns.sel)>>)

\* The materialization step of read_hdf5 (line 87).
CollectStep(lf, dup) == Out(lf_collect(lf, dup), <<Entry("collect")>>)

\* read_hdf5 without its projection step: the scan is collected as it is.
read_hdf5_no_projection(source, subgroup, format, columns, dup) ==
    LET scan == scan_hdf5(source, subgroup, format)
    IN  IF scan.ret.kind = "raise" THEN scan
        ELSE LET coll == CollectStep(scan.ret.lf, dup)
             IN  Out(coll.ret, scan.log \o coll.log)

\* read_hdf5(source, subgroup=, format=, columns=).
read_hdf5(source, subgroup, format, columns, dup) ==
    LET scan == scan_hdf5(source, subgroup, format)
    IN  IF scan.ret.kind = "raise" THEN scan
        ELSE LET proj == ProjectionStep(scan.ret.lf, columns)
             IN  IF proj.ret.kind = "raise"
                 THEN Out(proj.ret, scan.log \o proj.log)
                 ELSE LET coll == CollectStep(proj.ret.lf, dup)
                      IN  Out(coll.ret, scan.log \o proj.log \o coll.log)


\* --------------------------------------------------- Python: re.sub and eval

\* The text of a call of a builtin, e.g. typed into a template by its author.
BuiltinCall == "__import__('os').system('id')"

\* \w of the re module, over the characters templates are written with.
WordChars == {"a", "b", "z", "1"}

Digits == {"1"}

\* One unit of the rewritten string: a character of the template kept as it
\* is, or the text pl.col('<id>') that replaced a placeholder.
ChUnit(c) == [k |-> "ch", c |-> c, id |-> <<>>]

ColUnit(id) == [k |-> "col", c |-> "", id |-> id]

RECURSIVE WordRunEnd(_, _)
\* The index after the longest run of \w characters of s that starts at i.
WordRunEnd(s, i) ==
    IF i <= Len(s) /\ s[i] \in WordChars THEN WordRunEnd(s, i + 1) ELSE i

RECURSIVE re_sub_from(_, _)
\* re.sub(r"\{(\w+)\}", r"pl.col('\1')", s) from index i on: leftmost matches,
\* not overlapping; everything else is copied.
re_sub_from(s, i) ==
    IF i > Len(s) THEN <<>>
    ELSE LET j == WordRunEnd(s, i + 1)
         IN  IF s[i] = "{" /\ j > i + 1 /\ j <= Len(s) /\ s[j] = "}"
             THEN <<ColUnit(SubSeq(s, i + 1, j - 1))>> \o re_sub_from(s, j + 1)
             ELSE <<ChUnit(s[i])>> \o re_sub_from(s, i + 1)

re_sub(s) == re_sub_from(s, 1)

\* Python tokens.
Tok(t) == [t |-> t, id |-> <<>>, n |-> 0]

RECURSIVE NumVal(_)
NumVal(run) == IF run = <<>> THEN 0
               ELSE 10 * NumVal(SubSeq(run, 1, Len(run) - 1)) + 1

IsWordUnit(u) == u.k = "ch" /\ u.c \in WordChars

\* A unit whose text starts with an identifier: pl.col(...) or __import__(...).
StartsWithName(u) == u.k = "col" \/ (u.k = "ch" /\ u.c = BuiltinCall)

RECURSIVE UnitRunEnd(_, _)
UnitRunEnd(u, i) ==
    IF i <= Len(u) /\ IsWordUnit(u[i]) THEN UnitRunEnd(u, i + 1) ELSE i

RECURSIVE Lex(_, _)
\* Python's tokenizer on the rewritten string, from unit i on.  A run of word
\* characters is a number, a name, or (digits then letters) no token at all;
\* a run that runs into pl.col(...) or __import__(...) is one longer name.
Lex(u, i) ==
    IF i > Len(u) THEN <<>>
    ELSE IF IsWordUnit(u[i])
    THEN LET j   == UnitRunEnd(u, i)
             run == [k \in 1..(j - i) |-> u[i + k - 1].c]
         IN  IF j <= Len(u) /\ StartsWithName(u[j])
             THEN <<IF run[1] \in Digits THEN Tok("BAD")
                    ELSE [Tok("NAME") EXCEPT !.id = run \o <<"...">>]>> \o Lex(u, j + 1)
             ELSE <<IF \A k \in 1..Len(run) : run[k] \in Digits
                    THEN [Tok("NUM") EXCEPT !.n = NumVal(run)]
                    ELSE IF run[1] \in Digits THEN Tok("BAD")
                    ELSE [Tok("NAME") EXCEPT !.id = run]>> \o Lex(u, j)
    ELSE IF u[i].k = "col" THEN <<[Tok("COL") EXCEPT !.id = u[i].id]>> \o Lex(u, i + 1)
    ELSE IF u[i].c = " " THEN Lex(u, i + 1)
    ELSE IF u[i].c = "{" THEN <<Tok("LBRACE")>> \o Lex(u, i + 1)
    ELSE IF u[i].c = "}" THEN <<Tok("RBRACE")>> \o Lex(u, i + 1)
    ELSE IF u[i].c = "+" THEN <<Tok("PLUS")>> \o Lex(u, i + 1)
    ELSE IF u[i].c = BuiltinCall THEN <<Tok("CALL")>> \o Lex(u, i + 1)
    ELSE <<Tok("BAD")>> \o Lex(u, i + 1)

\* Python's expression grammar, as far as these tokens reach:
\*   expr  ::= unary ("+" unary)*        unary ::= "+" unary | atom
\*   atom  ::= COL | NUM | NAME | CALL | "{" "}" | "{" expr "}"
ParseFail == [ok |-> FALSE, node |-> <<>>, pos |-> 0]

ParseOk(node, pos) == [ok |-> TRUE, node |-> node, pos |-> pos]

RECURSIVE ParseExpr(_, _)
RECURSIVE ParseTail(_, _, _)
RECURSIVE ParseUnary(_, _)
RECURSIVE ParseAtom(_, _)

ParseAtom(toks, i) ==
    IF i > Len(toks) THEN ParseFail
    ELSE CASE toks[i].t = "COL"  -> ParseOk([t |-> "col", id |-> toks[i].id], i + 1)
           [] toks[i].t = "NUM"  -> ParseOk([t |-> "num", n |-> toks[i].n], i + 1)
           [] toks[i].t = "NAME" -> ParseOk([t |-> "name", id |-> toks[i].id], i + 1)
           [] toks[i].t = "CALL" -> ParseOk([t |-> "call"], i + 1)
           [] toks[i].t = "LBRACE" ->
                IF i + 1 <= Len(toks) /\ toks[i + 1].t = "RBRACE"
                THEN ParseOk([t |-> "dict"], i + 2)
                ELSE LET e == ParseExpr(toks, i + 1)
                     IN  IF e.ok /\ e.pos <= Len(toks) /\ toks[e.pos].t = "RBRACE"
                         THEN ParseOk([t |-> "set", e |-> e.node], e.pos + 1)
                         ELSE ParseFail
           [] OTHER -> ParseFail

ParseUnary(toks, i) ==
    IF i <= Len(toks) /\ toks[i].t = "PLUS"
    THEN LET e == ParseUnary(toks, i + 1)
         IN  IF e.ok THEN ParseOk([t |-> "pos", e |-> e.node], e.pos) ELSE ParseFail
    ELSE ParseAtom(toks, i)

ParseTail(toks, left, i) ==
    IF i <= Len(toks) /\ toks[i].t = "PLUS"
    THEN LET r == ParseUnary(toks, i + 1)
         IN  IF r.ok
             THEN ParseTail(toks, [t |-> "add", l |-> left, r |-> r.node], r.pos)
             ELSE ParseFail
    ELSE ParseOk(left, i)

ParseExpr(toks, i) ==
    LET u == ParseUnary(toks, i)
    IN  IF u.ok THEN ParseTail(toks, u.node, u.pos) ELSE ParseFail

\* compile(text, "<string>", "eval"): the whole text must be one expression.
PyParse(toks) ==
    LET e == ParseExpr(toks, 1)
    IN  IF e.ok /\ e.pos = Len(toks) + 1 THEN e ELSE ParseFail

\* Python values: an int, a polars expression, a dict or a set.
PyVal(ty) == [ty |-> ty, n |-> 0, e |-> <<>>]

PyInt(n) == [PyVal("int") EXCEPT !.n = n]

PyExpr(e) == [PyVal("Expr") EXCEPT !.e = e]

\* The outcome of evaluating a node: the exception raised (if any), the value,
\* and whether a builtin was called on the way.
Ev(err, info, val, ran) == [err |-> err, info |-> info, val |-> val, ran |-> ran]

\* An operand of an Expr operator, as an expression: an int becomes a literal.
AsExpr(v) == IF v.ty = "Expr" THEN v.e ELSE [t |-> "lit", n |-> v.n]

RECURSIVE PyEvalNode(_)
\* Evaluation in the namespace {"pl": pl} plus the builtins eval adds to it,
\* operands left to right.
PyEvalNode(node) ==
    CASE node.t = "col"  -> Ev("", <<>>, PyExpr([t |-> "col", id |-> node.id]), FALSE)
      [] node.t = "num"  -> Ev("", <<>>, PyInt(node.n), FALSE)
      [] node.t = "name" -> Ev("NameError", <<node.id>>, PyVal("none"), FALSE)
      [] node.t = "call" -> Ev("", <<>>, PyInt(0), TRUE)
      [] node.t = "dict" -> Ev("", <<>>, PyVal("dict"), FALSE)
      [] node.t = "set"  ->
            LET x == PyEvalNode(node.e)
            IN  IF x.err # "" THEN x
                ELSE IF x.val.ty = "int" THEN Ev("", <<>>, PyVal("set"), x.ran)
                ELSE Ev("TypeError", <<>>, PyVal("none"), x.ran)
      [] node.t = "pos"  ->
            LET x == PyEvalNode(node.e)
            IN  IF x.err # "" THEN x
                ELSE IF x.val.ty = "int" THEN x
                ELSE IF x.val.ty = "Expr"
                THEN Ev("", <<>>, PyExpr([t |-> "pos", e |-> x.val.e]), x.ran)
                ELSE Ev("TypeError", <<>>, PyVal("none"), x.ran)
      [] node.t = "add"  ->
            LET x == PyEvalNode(node.l)
            IN  IF x.err # "" THEN x
                ELSE LET y   == PyEvalNode(node.r)
                         ran == x.ran \/ y.ran
                     IN  IF y.err # "" THEN [y EXCEPT !.ran = ran]
                         ELSE IF x.val.ty = "int" /\ y.val.ty = "int"
                         THEN Ev("", <<>>, PyInt(x.val.n + y.val.n), ran)
                         ELSE IF {x.val.ty, y.val.ty} \subseteq {"int", "Expr"}
                         THEN Ev("", <<>>,
                                 PyExpr([t |-> "add", l |-> AsExpr(x.val),
                                         r |-> AsExpr(y.val)]), ran)
                         ELSE Ev("TypeError", <<>>, PyVal("none"), ran)

\* ------------------------------------------------ polars: Expr and DataFrame

RECURSIVE RootNames(_)
\* The columns an expression reads, leftmost first.
RootNames(e) ==
    CASE e.t = "col" -> <<e.id>>
      [] e.t = "lit" -> <<>>
      [] e.t = "pos" -> RootNames(e.e)
      [] e.t = "add" -> RootNames(e.l) \o RootNames(e.r)

TableNames(df) == [k \in 1..Len(df) |-> df[k].name]

ColumnOf(df, name) == df[CHOOSE k \in 1..Len(df) : df[k].name = name]

RECURSIVE EvalExpr(_, _, _)
\* The value of expression e in row r of df.
EvalExpr(e, df, r) ==
    CASE e.t = "col" -> ColumnOf(df, e.id).vals[r]
      [] e.t = "lit" -> e.n
      [] e.t = "pos" -> EvalExpr(e.e, df, r)
      [] e.t = "add" -> EvalExpr(e.l, df, r) + EvalExpr(e.r, df, r)

Height(df) == IF df = <<>> THEN 0 ELSE Len(df[1].vals)

\* Expr.alias(name): the expression under an output name.
alias(e, name) == [expr |-> e, out |-> name]

\* DataFrame.with_columns(aliased): a new frame; df itself is not changed.
with_columns(df, aliased) ==
    LET refs    == RootNames(aliased.expr)
        missing == {k \in 1..Len(refs) : refs[k] \notin Range(TableNames(df))}
        col     == [name |-> aliased.out,
                    vals |-> [r \in 1..Height(df) |-> EvalExpr(aliased.expr, df, r)]]
    IN  IF missing # {}
        THEN Raise("ColumnNotFoundError", "with_columns",
                   <<refs[CHOOSE k \in missing : \A m \in missing : k <= m]>>)
        ELSE IF aliased.out \in Range(TableNames(df))
        THEN ReturnTable([k \in 1..Len(df) |->
                            IF df[k].name = aliased.out THEN col ELSE df[k]])
        ELSE ReturnTable(Append(df, col))

\* ------------------------------------------ polars/_utils/TC_expressions.py

EvalEntry(text) == [Entry("eval") EXCEPT !.text = text]

\* trans_func with the last line in a try/except that hands back df when
\* with_columns raises.
trans_func_swallows(df, name, value) ==
    LET expr_str == re_sub(value)
        parsed   == PyParse(Lex(expr_str, 1))
        called   == <<EvalEntry(expr_str)>>
    IN  IF ~parsed.ok
        THEN Out(Raise("SyntaxError", "eval", <<>>), called)
        ELSE LET v   == PyEvalNode(parsed.node)
                 ran == called \o (IF v.ran THEN <<Entry("os.system")>> ELSE <<>>)
                 w   == with_columns(df, alias(v.val.e, name))
             IN  IF v.err # ""
                 THEN Out(Raise(v.err, "eval", v.info), ran)
                 ELSE IF v.val.ty # "Expr"
                 THEN Out(Raise("AttributeError", "expr.alias", <<>>), ran)
                 ELSE Out(IF w.kind = "raise" THEN ReturnTable(df) ELSE w,
                          ran \o <<Entry("with_columns")>>)

\* trans_func(df, name, value).
trans_func(df, name, value) ==
    LET expr_str == re_sub(value)
        parsed   == PyParse(Lex(expr_str, 1))
        called   == <<EvalEntry(expr_str)>>
    IN  IF ~parsed.ok
        THEN Out(Raise("SyntaxError", "eval", <<>>), called)
        ELSE LET v   == PyEvalNode(parsed.node)
                 ran == called \o (IF v.ran THEN <<Entry("os.system")>> ELSE <<>>)
             IN  IF v.err # ""
                 THEN Out(Raise(v.err, "eval", v.info), ran)
                 ELSE IF v.val.ty # "Expr"
                 THEN Out(Raise("AttributeError", "expr.alias", <<>>), ran)
                 ELSE Out(with_columns(df, alias(v.val.e, name)),
                          ran \o <<Entry("with_columns")>>)

\* ------------------------------------------------------------------ inputs

Paths == {"a.h5", "~/b.h5", "gone.h5"}

NoSource == [kind |-> "None", path |-> None, paths |-> <<>>]

Sources ==
    {[NoSource EXCEPT !.kind = k, !.path = p] : k \in {"str", "Path"}, p \in Paths}
    \cup {[NoSource EXCEPT !.kind = k] : k \in {"bytes", "stream", "int", "None"}}
    \cup {[NoSource EXCEPT !.kind = "list", !.paths = ps] :
            ps \in SeqsUpTo({"a.h5", "~/b.h5"}, MaxPaths)}

Subgroups == {None, "g"}

Formats == {None, "vaex"}

NoColumns == [kind |-> "None", sel |-> <<>>]

Columns ==
    {NoColumns}
    \cup {[kind |-> "ints", sel |-> s] : s \in SeqsUpTo(-4..3, MaxSel)}
    \cup {[kind |-> "names", sel |-> s] : s \in SeqsUpTo({"x", "y", "q", "w"}, MaxSel) \ {<<>>}}

DupPolicies == {"allow", "reject"}

NoManual == [pc |-> "off", ret |-> NoRet, log |-> <<>>]

\* The pieces template strings are put together from.
Pieces == {<<"{", "a", "}">>, <<"{", "b", "}">>, <<"{", "z", "}">>,
           <<"{">>, <<"}">>, <<"a">>, <<"1">>, <<"+">>, <<" ">>, <<BuiltinCall>>}

RECURSIVE Flatten(_)
Flatten(ps) == IF ps = <<>> THEN <<>> ELSE Head(ps) \o Flatten(Tail(ps))

Templates == {Flatten(ps) : ps \in SeqsUpTo(Pieces, MaxPieces)}

Frames == {<<[name |-> <<"a">>, vals |-> <<1, 2>>],
             [name |-> <<"b">>, vals |-> <<3, 4>>]>>,
           <<[name |-> <<"b">>, vals |-> <<5, 6>>],
             [name |-> <<"a">>, vals |-> <<7, 8>>],
             [name |-> <<"c">>, vals |-> <<9, 0>>]>>}

OutputNames == {<<"a">>, <<"d">>}

NoArgs == [source |-> NoSource, subgroup |-> None, format |-> None,
           columns |-> NoColumns, dup |-> "allow",
           df |-> <<>>, name |-> <<>>, value |-> <<>>]

\* ----------------------------------------------------------------- actions

Init ==
    /\ op = "none"
    /\ args = NoArgs
    /\ ret = NoRet
    /\ log = <<>>
    /\ manual = NoManual

\* A call of read_hdf5.
Read ==
    /\ op = "none"
    /\ \E s \in Sources, g \in Subgroups, f \in Formats, c \in Columns, d \in DupPolicies :
        LET out == read_hdf5(s, g, f, c, d)
        IN  /\ op' = "read_hdf5"
            /\ args' = [NoArgs EXCEPT !.source = s, !.subgroup = g, !.format = f,
                                       !.columns = c, !.dup = d]
            /\ ret' = out.ret
            /\ log' = out.log
            /\ manual' = [NoManual EXCEPT !.pc = "scan"]

\* A call of scan_hdf5.
Scan ==
    /\ op = "none"
    /\ \E s \in Sources, g \in Subgroups, f \in Formats :
        LET out == scan_hdf5(s, g, f)
        IN  /\ op' = "scan_hdf5"
            /\ args' = [NoArgs EXCEPT !.source = s, !.subgroup = g, !.format = f]
            /\ ret' = out.ret
            /\ log' = out.log
            /\ manual' = NoManual

\* The caller's own scan_hdf5 with the arguments of the last read_hdf5.
ManualScan ==
    /\ op = "read_hdf5" /\ manual.pc = "scan"
    /\ LET out == scan_hdf5(args.source, args.subgroup, args.format)
       IN  manual' = [pc  |-> IF out.ret.kind = "raise" THEN "done" ELSE "select",
                      ret |-> out.ret, log |-> out.log]
    /\ UNCHANGED <<op, args, ret, log>>

\* The caller's own projection of the scanned frame: nothing when no columns
\* were asked for; else the caller resolves positions to names against
\* lf.columns itself and calls select with the names.
ManualSelect ==
    /\ op = "read_hdf5" /\ manual.pc = "select"
    /\ LET lf     == manual.ret.lf
           c      == args.columns
           byPos  == c.kind = "ints" /\ c.sel # <<>>
           schema == lf_columns(lf)
           names  == IF byPos THEN [k \in 1..Len(c.sel) |-> PyIndex(schema, c.sel[k])]
                     ELSE c.sel
       IN  IF c.kind = "None"
           THEN manual' = [manual EXCEPT !.pc = "collect"]
           ELSE IF byPos /\ ~lf_readable(lf)
           THEN manual' = [manual EXCEPT !.pc = "done",
                              !.ret = Raise("EngineExecutionError", "lf.columns", <<>>)]
           ELSE IF byPos /\ \E k \in 1..Len(c.sel) : ~PyInRange(schema, c.sel[k])
           THEN manual' = [manual EXCEPT !.pc = "done",
                              !.ret = Raise("IndexError", "lf.columns[i]", <<>>)]
           ELSE manual' = [pc |-> "collect", ret |-> ReturnLf(lf_select(lf, names)),
                           log |-> Append(manual.log, SelectEntry(names))]
    /\ UNCHANGED <<op, args, ret, log>>

\* The caller's own collect of the projected frame.
ManualCollect ==
    /\ op = "read_hdf5" /\ manual.pc = "collect"
    /\ LET out == CollectStep(manual.ret.lf, args.dup)
       IN  manual' = [pc |-> "done", ret |-> out.ret, log |-> manual.log \o out.log]
    /\ UNCHANGED <<op, args, ret, log>>

\* A direct call of _scan_hdf5_impl with a str or list source.
ScanImpl ==
    /\ op = "none"
    /\ \E s \in {x \in Sources : x.kind \in {"str", "list"}}, g \in Subgroups, f \in Formats :
        LET out == _scan_hdf5_impl(s, g, f)
        IN  /\ op' = "_scan_hdf5_impl"
            /\ args' = [NoArgs EXCEPT !.source = s, !.subgroup = g, !.format = f]
            /\ ret' = out.ret
            /\ log' = out.log
            /\ manual' = NoManual

\* A call of trans_func.
Trans ==
    /\ op = "none"
    /\ \E df \in Frames, name \in OutputNames, value \in Templates :
        LET out == trans_func(df, name, value)
        IN  /\ op' = "trans_func"
            /\ args' = [NoArgs EXCEPT !.df = df, !.name = name, !.value = value]
            /\ ret' = out.ret
            /\ log' = out.log
            /\ manual' = NoManual

\* The caller drops the result; the next call starts afresh.
Return ==
    /\ op # "none"
    /\ op' = "none"
    /\ args' = NoArgs
    /\ ret' = NoRet
    /\ log' = <<>>
    /\ manual' = NoManual

Next ==
    \/ Read
    \/ Scan
    \/ ManualScan
    \/ ManualSelect
    \/ ManualCollect
    \/ ScanImpl
    \/ Trans
    \/ Return

Spec == Init /\ [][Next]_vars

\* ------------------------------------------------------------------ claims

\* The names of the functions in a call log.
Called(l) == {l[k].fn : k \in 1..Len(l)}

\* The call of scan_hdf5 or read_hdf5 in `op` has returned or raised.
HdfCall == op \in {"scan_hdf5", "read_hdf5"}

\* The schema the engine reports for the source of the current call.
ArgsSchema ==
    EngineSchemaOfFile(normalize_filepath(args.source.path), args.subgroup, args.format)

\* The current read_hdf5 call scanned a single readable path.
ReadOfReadable ==
    op = "read_hdf5" /\ args.source.kind \in {"str", "Path"} /\ ArgsSchema # <<>>

\* The placeholders re.sub found in the current template.
Placeholders ==
    LET u == re_sub(args.value)
    IN  {u[k].id : k \in {j \in 1..Len(u) : u[j].k = "col"}}

UnknownPlaceholders == Placeholders \ Range(TableNames(args.df))

\* The tokens of the rewritten template.
ArgTokens == Lex(re_sub(args.value), 1)

TokenKinds == {ArgTokens[k].t : k \in 1..Len(ArgTokens)}

\* C1: a template with a construct outside the restricted grammar (a bare
\* name, a call of a builtin) fails (with UnsupportedExpressionToken; the
\* exception's class is not compared), and the text never reaches Python's
\* eval nor does any code it names run.
C1_DisallowedRejectedUnevaluated ==
    (op = "trans_func" /\ TokenKinds \cap {"NAME", "CALL"} # {})
        => /\ ret.kind = "raise"
           /\ Called(log) \cap {"eval", "os.system"} = {}

\* C2: a source that is neither a path nor a list of paths makes scan_hdf5 and
\* read_hdf5 raise the source-kind error of scan_hdf5 at once: new_from_hdf5
\* is not invoked (nothing is) and no frame comes back.
C2_OtherSourceKindsRejectedBeforeEngine ==
    (HdfCall /\ args.source.kind \notin {"str", "Path", "list"})
        => /\ ret.kind = "raise"
           /\ ret.exc = "AttributeError"
           /\ ret.at = "scan_hdf5"
           /\ ret.lf = NoLf
           /\ log = <<>>

\* A call with raw bytes as its source has raised.
C2_Witness ==
    /\ HdfCall
    /\ args.source.kind = "bytes"
    /\ ret.kind = "raise"

\* C3: scan_hdf5 accepts a non-empty list of paths: it does not raise, and the
\* list of the normalized paths is what reaches new_from_hdf5.
C3_PathListAccepted ==
    (op = "scan_hdf5" /\ args.source.kind = "list" /\ args.source.paths # <<>>)
        => /\ ret.kind = "lf"
           /\ Len(log) = 1
           /\ log[1].fn = "new_from_hdf5"
           /\ log[1].source = None
           /\ log[1].sources = [k \in 1..Len(args.source.paths) |->
                                   normalize_filepath(args.source.paths[k])]

\* C4: an integer selector with a position outside 0..n-1 (a negative one
\* included) makes the projection step of read_hdf5 raise the index error
\* (ColumnIndexOutOfRange naming the position and n; what the message names
\* is not compared: IndexError names neither); nothing is selected or
\* collected.
C4_OutOfRangePositionRejected ==
    (/\ ReadOfReadable
     /\ args.columns.kind = "ints"
     /\ \E k \in 1..Len(args.columns.sel) :
            args.columns.sel[k] \notin 0..(Len(ArgsSchema) - 1))
        => /\ ret.kind = "raise"
           /\ ret.exc = "IndexError"
           /\ Called(log) \cap {"select", "collect"} = {}

\* C5: for a selector of positions that are all in 0..n-1, the names handed to
\* select are the schema's names at those positions, in the selector's order
\* and with its repetitions; a table that comes back has exactly those columns.
C5_PositionsResolveInSelectorOrder ==
    (/\ ReadOfReadable
     /\ args.columns.kind = "ints"
     /\ \A k \in 1..Len(args.columns.sel) :
            args.columns.sel[k] \in 0..(Len(ArgsSchema) - 1))
        => LET want == [k \in 1..Len(args.columns.sel) |->
                           ArgsSchema[args.columns.sel[k] + 1]]
           IN  /\ Len(log) = 3
               /\ log[2].fn = "select"
               /\ log[2].names = want
               /\ ret.kind = "table" => [k \in 1..Len(ret.table) |-> ret.table[k].name] = want
               /\ ret.kind = "raise" => ret.exc = "DuplicateError"

\* Positions 2 then 0 of x, y, z came back as the table z, x.
C5_Witness ==
    /\ ReadOfReadable
    /\ args.columns = [kind |-> "ints", sel |-> <<2, 0>>]
    /\ ret.kind = "table"
    /\ [k \in 1..Len(ret.table) |-> ret.table[k].name] = <<"z", "x">>

\* C6: read_hdf5 gives what scan_hdf5, then select of the resolved columns,
\* then collect give with the same arguments: the same table or the same
\* error, through the same primitives; with no columns asked for there is no
\* select and a table has the engine's schema of the source.
C6_ReadIsScanSelectCollect ==
    (op = "read_hdf5" /\ manual.pc = "done")
        => /\ manual.ret = ret
           /\ manual.log = log
           /\ args.columns.kind = "None" =>
                 /\ "select" \notin Called(log)
                 /\ ret.kind = "table" =>
                       [k \in 1..Len(ret.table) |-> ret.table[k].name] = ArgsSchema

\* read_hdf5 with columns y, x and the by-hand sequence both ended in the
\* same table.
C6_Witness ==
    /\ op = "read_hdf5" /\ manual.pc = "done"
    /\ args.columns = [kind |-> "names", sel |-> <<"y", "x">>]
    /\ ret.kind = "table"
    /\ manual.ret = ret

\* A template of the restricted grammar over the table: placeholders of
\* columns the table has, integer literals and +, forming one expression.
ValidTemplate ==
    /\ TokenKinds \subseteq {"COL", "NUM", "PLUS"}
    /\ PyParse(ArgTokens).ok
    /\ UnknownPlaceholders = {}

\* The frame out is the frame in with the one column `name` replaced where it
\* stood, or appended when the frame had none of that name.
FrameEffect(in, out, name) ==
    IF name \in Range(TableNames(in))
    THEN /\ Len(out) = Len(in)
         /\ \A k \in 1..Len(in) :
                IF in[k].name = name THEN out[k].name = name ELSE out[k] = in[k]
    ELSE /\ Len(out) = Len(in) + 1
         /\ SubSeq(out, 1, Len(in)) = in
         /\ out[Len(out)].name = name

\* C7: for every valid template trans_func returns a table that is the input
\* with the output column replaced in place or appended at the end, every
\* other column as it was.
C7_ValidTemplateGivesFrameEffect ==
    (op = "trans_func" /\ ValidTemplate)
        => /\ ret.kind = "table"
           /\ FrameEffect(args.df, ret.table, args.name)

\* What does hold of trans_func: whenever it returns a table, that table is
\* the input with the output column replaced in place or appended.
TransFuncFrameEffectWhenReturned ==
    (op = "trans_func" /\ ret.kind = "table")
        => FrameEffect(args.df, ret.table, args.name)

\* C8 as stated: every template with a placeholder of a column the table does
\* not have fails with the unknown-column error naming such a column.
C8_UnknownPlaceholderAlwaysColumnError ==
    (op = "trans_func" /\ UnknownPlaceholders # {})
        => /\ ret.kind = "raise"
           /\ ret.exc = "ColumnNotFoundError"
           /\ Len(ret.info) = 1 /\ ret.info[1] \in UnknownPlaceholders

\* The rewritten template is one Python expression whose evaluation raises
\* nothing and gives a polars expression.
EvaluatesToExpr ==
    LET parsed == PyParse(ArgTokens)
    IN  /\ parsed.ok
        /\ LET v == PyEvalNode(parsed.node)
           IN  v.err = "" /\ v.val.ty = "Expr"

\* C8 amended: when the rewritten template evaluates to an expression, a
\* placeholder of a column the table does not have makes trans_func fail in
\* with_columns with the unknown-column error naming such a column; no table
\* comes back.
C8_UnknownPlaceholderColumnErrorWhenEvaluated ==
    (op = "trans_func" /\ UnknownPlaceholders # {} /\ EvaluatesToExpr)
        => /\ ret.kind = "raise"
           /\ ret.exc = "ColumnNotFoundError"
           /\ ret.at = "with_columns"
           /\ Len(ret.info) = 1 /\ ret.info[1] \in UnknownPlaceholders
           /\ ret.table = NoTable

\* "{a}+{z}" on a table without z has raised, naming z.
C8_Witness ==
    /\ op = "trans_func"
    /\ args.value = <<"{", "a", "}", "+", "{", "z", "}">>
    /\ ret.kind = "raise"
    /\ ret.info = << <<"z">> >>

\* A brace that is no part of a {identifier} placeholder is left in the text.
Malformed ==
    LET u == re_sub(args.value)
    IN  \E k \in 1..Len(u) : u[k].k = "ch" /\ u[k].c \in {"{", "}"}

\* C9: a template with a malformed placeholder fails (with
\* MalformedPlaceholder; the exception's class is not compared) before the
\* rewritten text is parsed or evaluated.
C9_MalformedPlaceholderRejectedBeforeParse ==
    (op = "trans_func" /\ Malformed)
        => /\ ret.kind = "raise"
           /\ "eval" \notin Called(log)

\* C10: of the two source arguments of every new_from_hdf5 call exactly one is
\* non-empty: the single reference is set and the list empty, or the single
\* reference is None and the list non-empty.
C10_ExactlyOneSourceArgument ==
    \A l \in {log, manual.log} : \A k \in 1..Len(l) :
        l[k].fn = "new_from_hdf5"
            => \/ l[k].source # None /\ l[k].sources = <<>>
               \/ l[k].source = None /\ l[k].sources # <<>>

====
